---------------------------- MODULE Spec2Model ----------------------------
(***************************************************************************)
(* A model of the remote shell of src/server.c and src/client.c: the       *)
(* listener ("coordinator") process with its connection list and control  *)
(* pipe, one worker process per accepted connection, the command parser   *)
(* and pipeline executor a worker runs, and the interactive client loop.  *)
(*                                                                         *)
(* C strings are sequences of one-character strings; the terminating NUL  *)
(* is the end of the sequence.                                             *)
(***************************************************************************)
EXTENDS Integers, Sequences, FiniteSets, TLC

(***************************************************************************)
(* Characters and strings                                                  *)
(***************************************************************************)
SP == " "
NL == "\n"

Digits == <<"0", "1", "2", "3", "4", "5", "6", "7", "8", "9">>

IsDigit(ch) == \E k \in 1..10 : Digits[k] = ch

DigitVal(ch) == (CHOOSE k \in 1..10 : Digits[k] = ch) - 1

\* isspace() as atoi uses it, over the characters of the model
IsSpace(ch) == ch \in {" ", "\n", "\t"}

Drop(s, n) == IF n >= Len(s) THEN <<>> ELSE SubSeq(s, n + 1, Len(s))

Take(s, n) == IF n >= Len(s) THEN s ELSE SubSeq(s, 1, n)

\* strncmp(s, lit, n) == 0 for a literal lit with Len(lit) >= n
StrNEq(s, lit, n) == Len(s) >= n /\ SubSeq(s, 1, n) = SubSeq(lit, 1, n)

\* The "%d" conversion of snprintf, for n >= 0
RECURSIVE FmtD(_)
FmtD(n) == IF n < 10 THEN <<Digits[n + 1]>>
           ELSE FmtD(n \div 10) \o <<Digits[(n % 10) + 1]>>

RECURSIVE AtoiDigits(_, _)
AtoiDigits(s, acc) ==
    IF s = <<>> \/ ~IsDigit(Head(s)) THEN acc
    ELSE AtoiDigits(Tail(s), acc * 10 + DigitVal(Head(s)))

RECURSIVE SkipSpace(_)
SkipSpace(s) == IF s # <<>> /\ IsSpace(Head(s)) THEN SkipSpace(Tail(s)) ELSE s

\* atoi(): leading white space, an optional sign, then digits; 0 if none
Atoi(s) ==
    LET t == SkipSpace(s) IN
    IF t # <<>> /\ Head(t) = "-" THEN 0 - AtoiDigits(Tail(t), 0)
    ELSE IF t # <<>> /\ Head(t) = "+" THEN AtoiDigits(Tail(t), 0)
    ELSE AtoiDigits(t, 0)

\* The successive results of strtok(s, " "): the maximal runs without a space
RECURSIVE StrTok(_, _, _)
StrTok(s, cur, acc) ==
    IF s = <<>> THEN (IF cur = <<>> THEN acc ELSE Append(acc, cur))
    ELSE IF Head(s) = SP
         THEN StrTok(Tail(s), <<>>, IF cur = <<>> THEN acc ELSE Append(acc, cur))
         ELSE StrTok(Tail(s), Append(cur, Head(s)), acc)

\* Words of the protocol
W_halt  == <<"h", "a", "l", "t">>
W_help  == <<"h", "e", "l", "p">>
W_cd    == <<"c", "d">>
W_stat  == <<"s", "t", "a", "t">>
W_quit  == <<"q", "u", "i", "t">>
W_abort == <<"a", "b", "o", "r", "t", " ">>


(***************************************************************************)
(* The command parser: handle_command and read_filename                    *)
(***************************************************************************)
NumCommands == 10
NumArgsPerCommand == 5
MaxArgLength == 20

\* A NULL char* ; every other cell value is a string
Null == <<"NULL">>

\* args after the allocation loop: every cell a zeroed buffer
FreshArgs == [r \in 0..(NumCommands - 1) |-> [a \in 0..(NumArgsPerCommand - 1) |-> <<>>]]

FreshFlags == [r \in 0..(NumCommands - 1) |-> 0]

FreshFilenames == [r \in 0..(NumCommands - 1) |-> Null]

\* A filename reader that also stops at a redirection character
RECURSIVE ReadFilenameWord(_, _, _)
ReadFilenameWord(cmd, pos, acc) ==
    IF pos > Len(cmd) \/ cmd[pos] \in {";", "|", NL, "<", ">"} THEN <<acc, pos>>
    ELSE IF cmd[pos] = SP THEN ReadFilenameWord(cmd, pos + 1, acc)
    ELSE ReadFilenameWord(cmd, pos + 1, Append(acc, cmd[pos]))

\* read_filename: the characters up to ';', '|', newline or NUL, spaces
\* skipped.  Returns <<filename, position of the delimiter>>.
RECURSIVE ReadFilename(_, _, _)
ReadFilename(cmd, pos, acc) ==
    IF pos > Len(cmd) \/ cmd[pos] \in {";", "|", NL} THEN <<acc, pos>>
    ELSE IF cmd[pos] = SP THEN ReadFilename(cmd, pos + 1, acc)
    ELSE ReadFilename(cmd, pos + 1, Append(acc, cmd[pos]))

\* The argument vector execvp would see in row r: the cells up to the first NULL
RECURSIVE ArgvFrom(_, _)
ArgvFrom(row, a) ==
    IF a >= NumArgsPerCommand \/ row[a] = Null THEN <<>>
    ELSE <<row[a]>> \o ArgvFrom(row, a + 1)

\* One call of execute_command as handle_command makes it
ExecCall(ps, notAll) ==
    [kind |-> "exec",
     argv |-> [r \in 1..(ps.i + 1) |-> ArgvFrom(ps.args[r - 1], 0)],
     inf |-> [r \in 1..(ps.i + 1) |-> ps.inf[r - 1]],
     outf |-> [r \in 1..(ps.i + 1) |-> ps.outf[r - 1]],
     fn |-> [r \in 1..(ps.i + 1) |-> ps.fn[r - 1]],
     notAll |-> notAll]

\* A store outside the allocated arrays: behaviour undefined from here on
UbCall == [kind |-> "ub"]

\* A store through a NULL argument pointer: the process takes SIGSEGV
SegvCall == [kind |-> "segv"]

InBounds(ps) == ps.i < NumCommands /\ ps.j < NumArgsPerCommand /\ ps.l < MaxArgLength

\* "if (l > 0) { args[i][j][l] = '\0'; j++; }"
EndArg(ps) == IF ps.l > 0 THEN [ps EXCEPT !.j = ps.j + 1] ELSE ps

\* "args[i][j] = NULL"
SetNull(ps) == [ps EXCEPT !.args[ps.i][ps.j] = Null]

\* The reset after a ';': rows 0..i, columns 0..j get fresh buffers
ResetArgs(ps) ==
    [ps EXCEPT !.args = [r \in 0..(NumCommands - 1) |->
                           [a \in 0..(NumArgsPerCommand - 1) |->
                              IF r <= ps.i /\ a <= ps.j THEN <<>> ELSE ps.args[r][a]]],
               !.i = 0, !.j = 0, !.l = 0,
               !.inf = FreshFlags, !.outf = FreshFlags, !.fn = FreshFilenames]

ParseInit(cmd) ==
    [cmd |-> cmd, pos |-> 1, i |-> 0, j |-> 0, l |-> 0, args |-> FreshArgs,
     inf |-> FreshFlags, outf |-> FreshFlags, fn |-> FreshFilenames, calls |-> <<>>]

\* The loop of handle_command; the result is the sequence of execute_command
\* calls the line leads to, in order.
RECURSIVE ParseLoop(_)
ParseLoop(ps) ==
    LET c == ps.cmd[ps.pos]
        c1 == IF ps.pos + 1 <= Len(ps.cmd) THEN ps.cmd[ps.pos + 1] ELSE ""
        c2 == IF ps.pos + 2 <= Len(ps.cmd) THEN ps.cmd[ps.pos + 2] ELSE ""
        adv(n) == [ps EXCEPT !.pos = ps.pos + n]
        redirect(skip, isOut, mode) ==
            LET rf == ReadFilename(ps.cmd, ps.pos + skip, <<>>) IN
            IF ps.i >= NumCommands \/ Len(rf[1]) >= MaxArgLength
            THEN Append(ps.calls, UbCall)
            ELSE ParseLoop([ps EXCEPT !.pos = rf[2],
                                      !.fn[ps.i] = rf[1],
                                      !.outf[ps.i] = IF isOut THEN mode ELSE @,
                                      !.inf[ps.i] = IF isOut THEN @ ELSE 1])
    IN
    IF ps.pos > Len(ps.cmd) THEN Append(ps.calls, UbCall)
    ELSE IF c = NL THEN
        LET e == EndArg(ps) IN
        IF ~(e.i < NumCommands /\ e.j < NumArgsPerCommand /\ e.l < MaxArgLength)
        THEN Append(ps.calls, UbCall)
        ELSE LET f == SetNull(e) IN
             IF f.j = 0 \/ f.args[0][0] = Null THEN f.calls
             ELSE Append(f.calls, ExecCall(f, 0))
    ELSE IF c = SP THEN
        IF ps.l > 0
        THEN (IF ~InBounds(ps) THEN Append(ps.calls, UbCall)
              ELSE ParseLoop([ps EXCEPT !.j = ps.j + 1, !.l = 0, !.pos = ps.pos + 1]))
        ELSE ParseLoop(adv(1))
    ELSE IF c = "<" /\ c1 = "<" /\ c2 = "<" THEN ParseLoop(adv(3))
    ELSE IF c = ">" /\ c1 = ">" THEN redirect(2, TRUE, 2)
    ELSE IF c = ">" THEN redirect(1, TRUE, 1)
    ELSE IF c = "<" THEN redirect(1, FALSE, 0)
    ELSE IF c = ";" THEN
        LET e == EndArg(ps) IN
        IF ~(e.i < NumCommands /\ e.j < NumArgsPerCommand /\ e.l < MaxArgLength)
        THEN Append(ps.calls, UbCall)
        ELSE LET f == SetNull(e)
                 g == [f EXCEPT !.calls = Append(f.calls, ExecCall(f, 1))]
             IN  ParseLoop([ResetArgs(g) EXCEPT !.pos = ps.pos + 1])
    ELSE IF c = "|" THEN
        LET e == EndArg(ps) IN
        IF ~(e.i < NumCommands /\ e.j < NumArgsPerCommand /\ e.l < MaxArgLength)
        THEN Append(ps.calls, UbCall)
        ELSE ParseLoop([SetNull(e) EXCEPT !.i = e.i + 1, !.j = 0, !.l = 0,
                                          !.pos = ps.pos + 1])
    ELSE \* "args[i][j][l++] = *(cur_char++)"
        IF ~InBounds(ps) THEN Append(ps.calls, UbCall)
        ELSE IF ps.args[ps.i][ps.j] = Null THEN Append(ps.calls, SegvCall)
        ELSE ParseLoop([ps EXCEPT !.args[ps.i][ps.j] =
                                      IF ps.l = 0 THEN <<c>> ELSE Append(@, c),
                                  !.l = ps.l + 1, !.pos = ps.pos + 1])

\* handle_command(client_fd, command): the execute_command calls of one line
HandleCommand(cmd) == ParseLoop(ParseInit(cmd))


(***************************************************************************)
(* Bounds of the model and the values of the environment                   *)
(***************************************************************************)
\* Clients that ever connect
MaxConn == 2
\* Lines the clients read from their terminals in all
MaxCmds == 2
\* Chunks of output the last stage of a pipeline writes
MaxChunks == 1
\* accept() or fork() failures in the listener
MaxFail == 1

Conn == 1..MaxConn

\* Descriptors 0..2 are the terminal, 3 the listening socket, 4 and 5 the
\* control pipe: accept() returns the lowest free descriptor from 6 on.
FirstClientFd == 6
ClientFds == FirstClientFd..(FirstClientFd + MaxConn - 1)

\* Process ids of the workers: distinct, positive, two digits
PidBase == 40
PidOf(c) == PidBase + c

\* sizeof(parent_buffer) - 1 and the size of stat_buf
ParentBufferMax == 255
StatBufSize == 1024

\* The directories chdir() can enter
Dirs == {<<"d">>}
StartDir == <<"/">>

\* The command lines clients type
L_p == <<"p", NL>>
L_semi == <<"p", ";", NL>>
L_cdhelp == W_cd \o <<SP, "d", ";">> \o W_help \o <<NL>>
L_stat == W_stat \o <<NL>>
L_abort1 == W_abort \o <<"1", NL>>
L_abort2 == W_abort \o <<"2", NL>>
L_quit == W_quit \o <<NL>>
L_halt == W_halt \o <<NL>>
L_blank == <<SP, NL>>
L_empty == <<NL>>
L_pipe == <<"p", SP, "|", SP, "q", NL>>
L_seq == <<"p", SP, ">", SP, "f", ";", "q", NL>>
L_pipehelp == <<"p", SP, "|", SP>> \o W_help \o <<NL>>
L_semistat == <<"p", ";">> \o W_stat \o <<NL>>
L_semifirst == <<";", "p", NL>>
L_emptystage == <<"p", SP, "|", SP, "|", SP, "q", NL>>
L_fivewords == <<"p", SP, "a", SP, "a", SP, "a", SP, "a", NL>>
L_both == <<"p", SP, "<", SP, "a", SP, ">", SP, "b", NL>>
L_stale == <<"p", SP, "a", SP, "|", SP, "q", ";", "r", SP, "s", SP, "t", NL>>
L_cdx == W_cd \o <<SP, "x", NL>>
L_cd == W_cd \o <<NL>>
L_cdd == W_cd \o <<SP, "d", NL>>
L_infile == <<"p", SP, "<", SP, "f", SP, "|", SP, "q", SP, ">", ">", SP, "g", NL>>
L_outfile == <<"p", SP, ">", SP, "f", SP, "|", SP, "q", SP, "<", SP, "g", NL>>
\* The lines typed where two clients are connected, and where one is
SysLines == {L_p, L_empty, L_stat, L_abort1, L_quit, L_halt}
AllLines == {L_p, L_semi, L_empty, L_blank, L_pipe, L_seq, L_cdhelp, L_cdx, L_cd, L_stat, L_abort1,
             L_abort2, L_quit, L_halt,
             L_infile}
\* Lines that try the parser: built-in names after '|' and ';', empty
\* segments and stages, as many words as a row has cells
ParseLines == {L_p, L_pipe, L_seq, L_pipehelp, L_semistat, L_semifirst, L_emptystage,
               L_fivewords, L_infile, L_outfile, L_stale, L_both}

\* What the worker's receive buffer, never initialised, may hold at first:
\* zero bytes, or bytes left on the stack
Garbage == <<"?", "?", "?", "?", "?", "?", SP, "?", "?", "?">>
InitBufs == {<<>>, Garbage}

(***************************************************************************)
(* What is written to a socket: markers and blocks of bytes                *)
(***************************************************************************)
Tok(t) == [t |-> t, b |-> <<>>]
TokB(t, b) == [t |-> t, b |-> b]

END == Tok("[END]")
HALT == Tok("[HALT]")
QUIT == Tok("[QUIT]")
ABORT == Tok("[ABORT]")
\* bytes 6 and 7 of write(client_fd, "[END]", 7): the NUL and the byte after it
PAD == Tok("pad")
OUT == Tok("out")

TerminalMarkers == {"[END]", "[HALT]", "[QUIT]", "[ABORT]"}

IsMarker(tok) == tok.t \in TerminalMarkers

Markers(seq) == SelectSeq(seq, IsMarker)

(***************************************************************************)
(* The connection list: print_connections, find_fd, add_connection,        *)
(* abort_connection                                                        *)
(***************************************************************************)
Node(id, fd, pid) == [id |-> id, fd |-> fd, pid |-> pid]

\* strlen of "ID: %d | PID: %d | FD: %d\n"
LineLen(n) == 20 + Len(FmtD(n.id)) + Len(FmtD(n.pid)) + Len(FmtD(n.fd))

\* print_connections: one line per node, head first, while max_size allows;
\* a line that does not fit is cut (entry <<0, 0, 0>>)
RECURSIVE PrintConnections(_, _, _)
PrintConnections(list, room, acc) ==
    IF list = <<>> THEN acc
    ELSE LET n == Head(list) IN
         IF LineLen(n) <= room
         THEN PrintConnections(Tail(list), room - LineLen(n),
                               Append(acc, <<n.id, n.pid, n.fd>>))
         ELSE IF room > 0 THEN Append(acc, <<0, 0, 0>>) ELSE acc

\* find_fd
RECURSIVE FindFd(_, _, _)
FindFd(list, sender_pid, abort_id) ==
    IF list = <<>> THEN -1
    ELSE LET n == Head(list) IN
         IF sender_pid # 0 /\ n.pid = sender_pid THEN n.fd
         ELSE IF abort_id # 0 /\ n.id = abort_id THEN n.fd
         ELSE FindFd(Tail(list), sender_pid, abort_id)

\* An abort_connection that finds no node
AbortIndexNone(list, id, pid) == 0

\* abort_connection: the index of the node it kills and unlinks, 0 if none
AbortIndex(list, id, pid) ==
    LET hits == {k \in 1..Len(list) : list[k].id = id \/ list[k].pid = pid} IN
    IF hits = {} THEN 0 ELSE CHOOSE k \in hits : \A m \in hits : k <= m

RemoveAt(list, k) == SubSeq(list, 1, k - 1) \o SubSeq(list, k + 1, Len(list))

\* An add_connection that numbers the node by the length of the list
AddConnectionByLength(list, id, fd, pid) ==
    <<[id |-> Len(list) + 1, fd |-> fd, pid |-> pid]>> \o list

\* add_connection: the new node goes to the head
AddConnection(list, id, fd, pid) == <<Node(id, fd, pid)>> \o list


(***************************************************************************)
(* State                                                                   *)
(***************************************************************************)
VARIABLES
    cstate,     \* client c: "init", "Idle", "Awaiting" (waiting_for_response), "Exited"
    nsent,      \* lines the clients have read from their terminals so far
    c2s,        \* socket c, client to server: the lines not yet read
    wire,       \* socket c, server to client: everything written, in order
    rd,         \* socket c, server to client: the blocks the client has read whole
    part,       \* 1 if the client has read the first bytes of the next block
    dropped,    \* client c: why output it has read was not printed, if any was not
    eof,        \* the clients whose read() of the socket has returned 0
    pending,    \* connections the listener has not accepted yet
    coordUp,    \* the listener process is alive
    registry,   \* connection_list, head first
    nextId,     \* next_connection_id
    clientFd,   \* the listener's client_fd: the result of its last accept()
    cfd,        \* the listener's descriptor table: descriptor -> socket, 0 if free
    nfail,      \* accept(), pipe() and fork() failures so far
    wk,         \* worker process of connection c
    cpipe,      \* control pipe: the messages written and not yet read
    nreq,       \* control messages written so far
    read,       \* the control messages the listener has read: number, writer, keyword
    handled,    \* numbers of the control messages the listener has dispatched
    last        \* the listener's last dispatch: the request, the list before and
                \* after, the writes <<descriptor, socket, block, bytes>>, the kill

vars == <<cstate, nsent, c2s, wire, rd, part, dropped, eof, pending, coordUp, registry, nextId,
          clientFd, cfd, nfail, wk, cpipe, nreq, read, handled, last>>


NoWorker ==
    [pc |-> "none", buf |-> <<>>, k |-> 0, stages |-> <<>>, rp |-> 0, emitted |-> 0,
     widx |-> 0, inh |-> {}, cwd |-> StartDir, why |-> "",
     \* per stage: what its descriptors 0, 1 and 2 refer to, and its exit status
     \* (-1 while it has none), kept until the next pipeline is forked
     io |-> <<>>, status |-> <<>>,
     \* the arguments of the execute_command call the stages belong to
     call |-> [kind |-> "none"],
     \* for the properties: the buffer at the fork, whether the last line went to
     \* handle_command ("running", "returned"), and what the worker wrote for it
     b0 |-> <<>>, hc |-> "", out |-> <<>>]

NoDispatch ==
    [kind |-> "none", from |-> 0, senderPid |-> 0, argId |-> 0, before |-> <<>>,
     after |-> <<>>, next |-> 1, gone |-> {}, wrote |-> <<>>, busy |-> {}, killed |-> 0]

Init ==
    /\ cstate = [c \in Conn |-> "init"]
    /\ nsent = 0
    /\ c2s = [c \in Conn |-> <<>>]
    /\ wire = [c \in Conn |-> <<>>]
    /\ rd = [c \in Conn |-> 0]
    /\ part = [c \in Conn |-> 0]
    /\ dropped = [c \in Conn |-> {}]
    /\ eof = {}
    /\ pending = <<>>
    /\ coordUp = TRUE
    /\ registry = <<>>
    /\ nextId = 1
    /\ clientFd = 0
    /\ cfd = [f \in ClientFds |-> 0]
    /\ nfail = 0
    /\ wk = [c \in Conn |-> NoWorker]
    /\ cpipe = <<>>
    /\ nreq = 0
    /\ read = {}
    /\ handled = {}
    /\ last = NoDispatch

Alive(c) == wk[c].pc \notin {"none", "dead"}

\* A stage process that has not terminated
StageLive(st) == st \in {"forked", "run"}

InPending(c) == \E k \in 1..Len(pending) : pending[k] = c

\* Some server-side process still holds a descriptor of socket c: the listener,
\* a worker forked while the listener had it open, or a stage of such a worker
ServerSideOpen(c) ==
    \/ coordUp /\ (InPending(c) \/ \E f \in ClientFds : cfd[f] = c)
    \/ \E w \in Conn : /\ c \in wk[w].inh
                       /\ \/ Alive(w)
                          \/ \E r \in 1..Len(wk[w].stages) : StageLive(wk[w].stages[r])

PeerClosed(c) == cstate[c] = "Exited"

(***************************************************************************)
(* The client: main_connection_loop                                        *)
(***************************************************************************)
\* connect() in run_unix_client / run_tcp_client
ClientConnect(c) ==
    /\ cstate[c] = "init"
    /\ coordUp
    /\ IF c = 1 THEN TRUE ELSE cstate[c - 1] # "init"
    /\ cstate' = [cstate EXCEPT ![c] = "Idle"]
    /\ pending' = Append(pending, c)
    /\ UNCHANGED <<nsent, c2s, wire, rd, part, dropped, eof, coordUp, registry, nextId, clientFd, cfd,
                   nfail, wk, cpipe, nreq, read, handled, last>>

\* A line that would be sent although it is a bare newline
IsEmptyLineNever(input_buf) == FALSE

\* "Skip empty lines": strlen(input_buf) <= 1
IsEmptyLine(input_buf) == Len(input_buf) <= 1

\* fgets() returns a line from the terminal: it is written to the socket
\* unless it is empty
ClientSend(c, ln) ==
    /\ cstate[c] = "Idle"
    /\ nsent < MaxCmds
    /\ IF IsEmptyLine(ln)
       THEN UNCHANGED <<c2s, cstate>>
       ELSE IF ServerSideOpen(c)
       THEN /\ c2s' = [c2s EXCEPT ![c] = Append(@, ln)]
            /\ cstate' = [cstate EXCEPT ![c] = "Awaiting"]
       ELSE /\ c2s' = c2s
            /\ cstate' = [cstate EXCEPT ![c] = "Exited"]
    /\ nsent' = nsent + 1
    /\ UNCHANGED <<wire, rd, part, dropped, eof, pending, coordUp, registry, nextId, clientFd, cfd,
                   nfail, wk, cpipe, nreq, read, handled, last>>

\* fgets() returns NULL: "Input closed", the loop ends and the socket is closed
ClientInputClosed(c) ==
    /\ cstate[c] = "Idle"
    /\ cstate' = [cstate EXCEPT ![c] = "Exited"]
    /\ UNCHANGED <<nsent, c2s, wire, rd, part, dropped, eof, pending, coordUp, registry, nextId, clientFd,
                   cfd, nfail, wk, cpipe, nreq, read, handled, last>>

\* What the string functions see of the bytes of one read(): those before
\* the first NUL
RECURSIVE CStr(_)
CStr(chunk) ==
    IF chunk = <<>> \/ Head(chunk).t = "pad" THEN <<>>
    ELSE <<Head(chunk)>> \o CStr(Tail(chunk))

HasTok(seq, t) == \E k \in 1..Len(seq) : seq[k].t = t

\* Some bytes of a marker, the rest of it in another read()
FRAG == Tok("frag")

\* A block of output: neither a marker, nor part of one, nor the NUL
IsOutput(tok) == tok.t \notin TerminalMarkers \union {"pad", "frag"}

\* strstr(buffer, "[END]"): the index of the first one, 0 if there is none
FirstEnd(str) ==
    LET hits == {k \in 1..Len(str) : str[k].t = "[END]"} IN
    IF hits = {} THEN 0 ELSE CHOOSE k \in hits : \A m \in hits : k <= m

\* The bytes of one read(): what was left of a block read in part, n whole
\* blocks, and the first bytes of the marker after them if the read ends there
Chunk(c, n, cut) ==
    (IF part[c] = 1 THEN <<FRAG>> ELSE <<>>)
    \o SubSeq(wire[c], rd[c] + part[c] + 1, rd[c] + part[c] + n)
    \o (IF cut THEN <<FRAG>> ELSE <<>>)

\* Why bytes of this read() are not printed: the loop prints nothing unless
\* waiting_for_response, nothing after the first "[END]", nothing after a NUL
Unprinted(waiting, chunk) ==
    LET str == CStr(chunk)
        e == FirstEnd(str)
        after(k) == \E m \in (k + 1)..Len(chunk) : IsOutput(chunk[m])
    IN  IF ~waiting THEN (IF after(0) THEN {"idle"} ELSE {})
        ELSE IF e # 0 THEN (IF after(e) THEN {"end"} ELSE {})
        ELSE IF after(Len(str)) THEN {"nul"} ELSE {}

\* One read() from the socket and what the loop does with the bytes
ClientRecv(c, n, cut) ==
    /\ cstate[c] \in {"Idle", "Awaiting"}
    /\ n \in 0..(Len(wire[c]) - rd[c] - part[c])
    /\ part[c] + n + (IF cut THEN 1 ELSE 0) >= 1
    /\ IF cut
       THEN /\ rd[c] + part[c] + n + 1 <= Len(wire[c])
            /\ IsMarker(wire[c][rd[c] + part[c] + n + 1])
       ELSE TRUE
    /\ LET chunk == Chunk(c, n, cut)
           str == CStr(chunk)
           exits == str # <<>> /\ str[1].t \in {"[HALT]", "[QUIT]", "[ABORT]"}
       IN  /\ cstate' = [cstate EXCEPT ![c] =
                           IF exits THEN "Exited"
                           ELSE IF cstate[c] = "Awaiting" /\ FirstEnd(str) # 0 THEN "Idle"
                           ELSE @]
           /\ dropped' = [dropped EXCEPT ![c] =
                            IF exits THEN @
                            ELSE @ \union Unprinted(cstate[c] = "Awaiting", chunk)]
    /\ rd' = [rd EXCEPT ![c] = @ + part[c] + n]
    /\ part' = [part EXCEPT ![c] = IF cut THEN 1 ELSE 0]
    /\ UNCHANGED <<eof, nsent, c2s, wire, pending, coordUp, registry, nextId, clientFd, cfd,
                   nfail, wk, cpipe, nreq, read, handled, last>>

\* read() returns 0: every descriptor of the server side is closed and all
\* that was written has been read.  The inner loop ends, nothing is printed,
\* waiting_for_response is left as it is, and the outer loop selects again.
ClientReadEOF(c) ==
    /\ cstate[c] \in {"Idle", "Awaiting"}
    /\ ~ServerSideOpen(c)
    /\ rd[c] + part[c] = Len(wire[c])
    /\ eof' = eof \union {c}
    /\ UNCHANGED <<cstate, nsent, c2s, wire, rd, part, dropped, pending, coordUp, registry,
                   nextId, clientFd, cfd, nfail, wk, cpipe, nreq, read, handled, last>>


(***************************************************************************)
(* The listener: main_server_loop in the parent                            *)
(***************************************************************************)
\* The lowest free descriptor, as accept() returns it
LowestFreeFd == CHOOSE f \in ClientFds : cfd[f] = 0 /\ \A g \in ClientFds : cfd[g] = 0 => f <= g

OpenSockets == {cfd[f] : f \in {g \in ClientFds : cfd[g] # 0}}

\* A child that starts in the directory an earlier worker has changed to
NewWorkerSharedCwd(c, b) ==
    LET others == {d \in Conn : wk[d].pc # "none"} IN
    [NoWorker EXCEPT !.pc = "read", !.buf = b, !.b0 = b, !.inh = OpenSockets \union {c},
                     !.cwd = IF others = {} THEN StartDir
                             ELSE wk[CHOOSE d \in others : TRUE].cwd]

\* The child of the fork: it starts in read(client_fd) with the descriptors
\* the listener had open
NewWorker(c, b) ==
    [NoWorker EXCEPT !.pc = "read", !.buf = b, !.b0 = b, !.inh = OpenSockets \union {c}]

\* A listener that closes its copy of the accepted socket after the fork
CoordAcceptCloses ==
    /\ coordUp
    /\ pending # <<>>
    /\ LET c == Head(pending)
           fd == LowestFreeFd
       IN  /\ \E b \in InitBufs : wk' = [wk EXCEPT ![c] = NewWorker(c, b)]
           /\ registry' = AddConnection(registry, nextId, fd, PidOf(c))
           /\ nextId' = nextId + 1
           /\ clientFd' = fd
    /\ pending' = Tail(pending)
    /\ UNCHANGED <<cstate, nsent, c2s, wire, rd, part, dropped, eof, coordUp, nfail, cpipe, nreq, read,
                   handled, last, cfd>>

\* accept() and fork() succeed: a worker is forked and add_connection is called
CoordAccept ==
    /\ coordUp
    /\ pending # <<>>
    /\ LET c == Head(pending)
           fd == LowestFreeFd
       IN  /\ \E b \in InitBufs : wk' = [wk EXCEPT ![c] = NewWorker(c, b)]
           /\ registry' = AddConnection(registry, nextId, fd, PidOf(c))
           /\ nextId' = nextId + 1
           /\ clientFd' = fd
           /\ cfd' = [cfd EXCEPT ![fd] = c]
    /\ pending' = Tail(pending)
    /\ UNCHANGED <<cstate, nsent, c2s, wire, rd, part, dropped, eof, coordUp, nfail, cpipe, nreq, read,
                   handled, last>>

\* accept() fails: "Accept failed", continue
CoordAcceptFail ==
    /\ coordUp
    /\ pending # <<>>
    /\ nfail < MaxFail
    /\ clientFd' = -1
    /\ nfail' = nfail + 1
    /\ UNCHANGED <<cstate, nsent, c2s, wire, rd, part, dropped, eof, pending, coordUp, registry, nextId, cfd,
                   wk, cpipe, nreq, read, handled, last>>

\* fork() fails: "Fork failed", close(client_fd), continue
CoordForkFail ==
    /\ coordUp
    /\ pending # <<>>
    /\ nfail < MaxFail
    /\ clientFd' = LowestFreeFd
    /\ nfail' = nfail + 1
    /\ pending' = Tail(pending)
    /\ UNCHANGED <<cstate, nsent, c2s, wire, rd, part, dropped, eof, coordUp, registry, nextId, cfd, wk,
                   cpipe, nreq, read, handled, last>>

RECURSIVE Concat(_)
Concat(msgs) == IF msgs = <<>> THEN <<>> ELSE Head(msgs).text \o Concat(Tail(msgs))

Wr(fd, tok) == [fd |-> fd, tok |-> tok]

InfoAborted(id) == TokB("[INFO] Aborted connection for ID", <<id>>)

\* The branch for "abort": fields by strtok/atoi, the two find_fd, the writes,
\* then abort_connection(&connection_list, arg_id, -1)
DispatchAbort(buf, list) ==
    LET toks == StrTok(buf, <<>>, <<>>) IN
    IF Len(toks) < 3
    THEN [kind |-> "abort", segv |-> TRUE, senderPid |-> 0, argId |-> 0,
          writes |-> <<>>, kill |-> 0]
    ELSE LET arg_id == Atoi(toks[2])
             sender_pid == Atoi(toks[3])
             sender_fd == FindFd(list, sender_pid, -1)
             arg_fd == FindFd(list, -1, arg_id)
         IN  [kind |-> "abort", segv |-> FALSE, senderPid |-> sender_pid, argId |-> arg_id,
              writes |->
                 IF sender_fd = arg_fd THEN <<Wr(arg_fd, ABORT), Wr(arg_fd, END)>>
                 ELSE (IF sender_fd >= 0
                       THEN <<Wr(sender_fd, InfoAborted(arg_id)), Wr(sender_fd, END)>>
                       ELSE <<>>)
                      \o (IF arg_fd >= 0
                          THEN <<Wr(arg_fd, ABORT), Wr(arg_fd, END)>>
                          ELSE <<>>),
              kill |-> AbortIndex(list, arg_id, -1)]

\* The branch for "stat": the listing goes to the sender's socket
DispatchStat(buf, list) ==
    LET sender_pid == Atoi(Drop(buf, 5))
        found_fd == FindFd(list, sender_pid, -1)
    IN  [kind |-> "stat", segv |-> FALSE, senderPid |-> sender_pid, argId |-> 0,
         writes |->
            IF found_fd >= 0
            THEN <<Wr(found_fd, TokB("stat", PrintConnections(list, StatBufSize - 1, <<>>))),
                   Wr(found_fd, END)>>
            ELSE <<>>,
         kill |-> 0]

\* The branch for "quit": the marker, then abort_connection(&connection_list, -1, sender_pid)
DispatchQuit(buf, list, client_fd) ==
    LET sender_pid == Atoi(Drop(buf, 5))
        found_fd == FindFd(list, sender_pid, -1)
    IN  [kind |-> "quit", segv |-> FALSE, senderPid |-> sender_pid, argId |-> 0,
         writes |-> IF client_fd > 0 THEN <<Wr(found_fd, QUIT), Wr(found_fd, END)>> ELSE <<>>,
         kill |-> AbortIndex(list, -1, sender_pid)]

\* What the listener does with the bytes of one read() of the control pipe
Dispatch(buf, list, client_fd) ==
    IF StrNEq(buf, W_abort, 5) THEN DispatchAbort(buf, list)
    ELSE IF StrNEq(buf, W_stat, 4) THEN DispatchStat(buf, list)
    ELSE IF StrNEq(buf, W_quit, 4) THEN DispatchQuit(buf, list, client_fd)
    ELSE [kind |-> "other", segv |-> FALSE, senderPid |-> 0, argId |-> 0,
          writes |-> <<>>, kill |-> 0]

\* The socket a descriptor of the listener refers to, 0 if it is not open
SockOf(fd) == IF fd \in ClientFds THEN cfd[fd] ELSE 0

\* The blocks among the first n writes that reach socket c
RECURSIVE WrittenTo(_, _, _)
WrittenTo(ws, n, c) ==
    IF n = 0 \/ ws = <<>> THEN <<>>
    ELSE (IF SockOf(Head(ws).fd) = c THEN <<Head(ws).tok>> ELSE <<>>)
         \o WrittenTo(Tail(ws), n - 1, c)

\* The listener process ends: its descriptors are closed
CoordDies ==
    /\ coordUp' = FALSE
    /\ cfd' = [f \in ClientFds |-> 0]
    /\ pending' = <<>>

\* The control pipe is readable: one read(), one dispatch
CoordControl ==
    /\ coordUp
    /\ cpipe # <<>>
    /\ LET all == Concat(cpipe)
           buf == Take(all, ParentBufferMax)
           rest == Drop(all, ParentBufferMax)
           d == Dispatch(buf, registry, clientFd)
           nw == Len(d.writes)
           \* a write to a socket whose peer is gone can raise SIGPIPE
           fatal == {k \in 1..nw : SockOf(d.writes[k].fd) # 0
                                   /\ PeerClosed(SockOf(d.writes[k].fd))}
       IN  \E die \in {0} \union fatal :
             LET done == IF d.segv THEN 0 ELSE IF die = 0 THEN nw ELSE die - 1
                 completes == ~d.segv /\ die = 0
                 kill == IF completes THEN d.kill ELSE 0
                 victim == IF kill = 0 THEN 0 ELSE registry[kill].pid - PidBase
             IN  /\ wire' = [c \in Conn |-> wire[c] \o WrittenTo(d.writes, done, c)]
                 /\ cpipe' = IF rest = <<>> THEN <<>>
                             ELSE <<[cpipe[Len(cpipe)] EXCEPT !.text = rest]>>
                 /\ read' = read \union {[n |-> cpipe[k].n, from |-> cpipe[k].from,
                                            kind |-> cpipe[k].kind] : k \in 1..Len(cpipe)}
                 /\ handled' = IF d.kind = "other" THEN handled
                               ELSE handled \union {Head(cpipe).n}
                 /\ last' = [kind |-> d.kind, from |-> Head(cpipe).from,
                             senderPid |-> d.senderPid, argId |-> d.argId,
                             before |-> registry,
                             after |-> IF kill = 0 THEN registry
                                       ELSE RemoveAt(registry, kill),
                             next |-> nextId,
                             gone |-> {c \in Conn : PeerClosed(c)},
                             wrote |-> [k \in 1..done |->
                                          <<d.writes[k].fd, SockOf(d.writes[k].fd),
                                            d.writes[k].tok.t, d.writes[k].tok.b>>],
                             busy |-> {c \in Conn : /\ WrittenTo(d.writes, done, c) # <<>>
                                                    /\ Alive(c) /\ wk[c].pc # "read"},
                             killed |-> victim]
                 /\ IF completes
                    THEN /\ registry' = IF kill = 0 THEN registry ELSE RemoveAt(registry, kill)
                         /\ cfd' = IF kill = 0 THEN cfd
                                   ELSE [cfd EXCEPT ![registry[kill].fd] = 0]
                         /\ wk' = IF victim = 0 \/ ~Alive(victim) THEN wk
                                  ELSE [wk EXCEPT ![victim].pc = "dead",
                                                  ![victim].why = "killed"]
                         /\ UNCHANGED <<coordUp, pending>>
                    ELSE /\ CoordDies
                         /\ UNCHANGED <<registry, wk>>
    /\ UNCHANGED <<cstate, nsent, c2s, rd, part, dropped, eof, nextId, clientFd, nfail, nreq>>


(***************************************************************************)
(* The worker: the child branch of main_server_loop                        *)
(***************************************************************************)
\* snprintf(msg, sizeof(msg), ...): at most 255 characters
MsgMax == 255

\* "stat %d\n"
StatMsg(pid) == W_stat \o <<SP>> \o FmtD(pid) \o <<NL>>

\* "%s %d\n" of the receive buffer, a C string, and the pid
FwdMsg(buf, pid) == Take(buf \o <<SP>> \o FmtD(pid) \o <<NL>>, MsgMax)

\* read(client_fd, buffer, ...) stores the bytes received over what the buffer held
AfterRead(buf, line) == line \o Drop(buf, Len(line))

\* The message the worker forwards for the buffer, <<>> for a line it handles itself
ControlMsg(buf, pid) ==
    IF StrNEq(buf, W_stat, 4) THEN StatMsg(pid)
    ELSE IF StrNEq(buf, W_abort, 6) THEN FwdMsg(buf, pid)
    ELSE IF StrNEq(buf, W_quit, 4) THEN FwdMsg(buf, pid)
    ELSE <<>>

\* read() returns a line: forward it to the listener or start handle_command
WorkerRead(c) ==
    /\ wk[c].pc = "read"
    /\ c2s[c] # <<>>
    /\ LET buf == AfterRead(wk[c].buf, Head(c2s[c]))
           msg == ControlMsg(buf, PidOf(c))
       IN  IF msg # <<>>
           THEN IF coordUp
                THEN /\ cpipe' = Append(cpipe, [text |-> msg, from |-> c, n |-> nreq + 1,
                                                 kind |-> Take(msg, 4)])
                     /\ nreq' = nreq + 1
                     /\ wk' = [wk EXCEPT ![c].buf = buf, ![c].out = <<>>, ![c].hc = ""]
                ELSE \* nobody holds the read end any more: SIGPIPE
                     /\ wk' = [wk EXCEPT ![c].buf = buf, ![c].pc = "dead",
                                         ![c].why = "sigpipe", ![c].out = <<>>,
                                         ![c].hc = ""]
                     /\ UNCHANGED <<cpipe, nreq>>
           ELSE \* "buffer[strlen(buffer)] = '\n'; handle_command(client_fd, buffer)"
                /\ wk' = [wk EXCEPT ![c].buf = Append(buf, NL), ![c].pc = "handle",
                                    ![c].k = 1, ![c].out = <<>>, ![c].hc = "running"]
                /\ UNCHANGED <<cpipe, nreq>>
    /\ c2s' = [c2s EXCEPT ![c] = Tail(@)]
    /\ UNCHANGED <<cstate, nsent, wire, rd, part, dropped, eof, pending, coordUp, registry, nextId, clientFd,
                   cfd, nfail, read, handled, last>>

\* A worker that would unlink its node from the list when it exits
WorkerEOFUnlinks(c) ==
    /\ wk[c].pc = "read"
    /\ c2s[c] = <<>>
    /\ PeerClosed(c)
    /\ wk' = [wk EXCEPT ![c].pc = "dead", ![c].why = "exit"]
    /\ registry' = SelectSeq(registry, LAMBDA n : n.pid # PidOf(c))
    /\ UNCHANGED <<cstate, nsent, c2s, wire, rd, part, dropped, eof, pending, coordUp, nextId,
                   clientFd, cfd, nfail, cpipe, nreq, read, handled, last>>

\* read() returns 0: "Client disconnected", close(client_fd), exit(0)
WorkerEOF(c) ==
    /\ wk[c].pc = "read"
    /\ c2s[c] = <<>>
    /\ PeerClosed(c)
    /\ wk' = [wk EXCEPT ![c].pc = "dead", ![c].why = "exit"]
    /\ UNCHANGED <<cstate, nsent, c2s, wire, rd, part, dropped, eof, pending, coordUp, registry, nextId,
                   clientFd, cfd, nfail, cpipe, nreq, read, handled, last>>

(***************************************************************************)
(* execute_command                                                         *)
(***************************************************************************)
\* The call of execute_command the worker is at
Calls(c) == HandleCommand(wk[c].buf)

CurCall(c) == Calls(c)[wk[c].k]

\* The worker writes blocks to its socket
Emit(c, toks) ==
    /\ wire' = [wire EXCEPT ![c] = @ \o toks]

\* A "cd" that takes the path as entered also when chdir() fails
CdResultEnters(argv, cwd) ==
    IF Len(argv) < 2 THEN [cwd |-> cwd, toks |-> <<Tok("[ERROR] cd: missing argument"), END>>]
    ELSE [cwd |-> argv[2],
          toks |-> IF argv[2] \notin Dirs
                   THEN <<Tok("[ERROR] cd: directory doesn't exist"), END>>
                   ELSE <<TokB("[INFO] Changed directory to", argv[2]), END>>]

\* What the built-in "cd" writes, and the directory afterwards
CdResult(argv, cwd) ==
    IF Len(argv) < 2 THEN [cwd |-> cwd, toks |-> <<Tok("[ERROR] cd: missing argument"), END>>]
    ELSE IF argv[2] \notin Dirs
         THEN [cwd |-> cwd, toks |-> <<Tok("[ERROR] cd: directory doesn't exist"), END>>]
         ELSE [cwd |-> argv[2],
               toks |-> <<TokB("[INFO] Changed directory to", argv[2]), END>>]

HelpToks == <<Tok("[HELP]"), END>>

HaltToks == <<HALT, END>>

\* What a descriptor of a stage refers to
Fd(to, n, name) == [to |-> to, n |-> n, name |-> name]

NoIo == [stdin |-> Fd("", 0, <<>>), stdout |-> Fd("", 0, <<>>), stderr |-> Fd("", 0, <<>>)]

\* Descriptor 0 of stage r: input_redirection, the pipe before it, or what the
\* worker has
StageStdin(call, r) ==
    IF call.inf[r] # 0 THEN Fd("file", 0, call.fn[r])
    ELSE IF r > 1 THEN Fd("pipe", r - 1, <<>>)
    ELSE Fd("inherited", 0, <<>>)

\* A descriptor 1 for which the pipe to the next stage goes before a redirection
StageStdoutPipeFirst(call, r) ==
    IF r < Len(call.argv) THEN Fd("pipe", r, <<>>)
    ELSE IF call.outf[r] = 1 THEN Fd("file", 0, call.fn[r])
    ELSE IF call.outf[r] = 2 THEN Fd("append", 0, call.fn[r])
    ELSE Fd("result", 0, <<>>)

\* Descriptor 1 of stage r: output_redirection, output_redirection_append, the
\* pipe after it, or the result pipe
StageStdout(call, r) ==
    IF call.outf[r] = 1 THEN Fd("file", 0, call.fn[r])
    ELSE IF call.outf[r] = 2 THEN Fd("append", 0, call.fn[r])
    ELSE IF r < Len(call.argv) THEN Fd("pipe", r, <<>>)
    ELSE Fd("result", 0, <<>>)

\* "dup2(STDOUT_FILENO, STDERR_FILENO)"
StageStderr(call, r) == StageStdout(call, r)

Wiring(call, r) ==
    [stdin |-> StageStdin(call, r), stdout |-> StageStdout(call, r),
     stderr |-> StageStderr(call, r)]

\* execute_command is about to create the pipes of a pipeline
AtPipeline(c) ==
    /\ wk[c].pc = "handle"
    /\ wk[c].k <= Len(Calls(c))
    /\ CurCall(c).kind = "exec"
    /\ CurCall(c).argv[1] # <<>>
    /\ CurCall(c).argv[1][1] \notin {W_halt, W_help, W_cd}

\* pipe() fails: perror() on the server's terminal, exit(1)
ExecPipeFail(c) ==
    /\ AtPipeline(c)
    /\ nfail < MaxFail
    /\ nfail' = nfail + 1
    /\ wk' = [wk EXCEPT ![c].pc = "dead", ![c].why = "pipe"]
    /\ UNCHANGED <<cstate, nsent, c2s, wire, rd, part, dropped, eof, pending, coordUp, registry,
                   nextId, clientFd, cfd, cpipe, nreq, read, handled, last>>

\* fork() fails for stage i: perror(), exit(1); the stages forked before it go on
ExecForkFail(c, i) ==
    /\ AtPipeline(c)
    /\ i \in 1..Len(CurCall(c).argv)
    /\ nfail < MaxFail
    /\ nfail' = nfail + 1
    /\ wk' = [wk EXCEPT ![c].pc = "dead", ![c].why = "fork",
                        ![c].call = CurCall(c),
                        ![c].stages = [r \in 1..(i - 1) |-> "forked"],
                        ![c].io = [r \in 1..(i - 1) |-> NoIo],
                        ![c].status = [r \in 1..(i - 1) |-> -1],
                        ![c].rp = 0, ![c].emitted = 0]
    /\ UNCHANGED <<cstate, nsent, c2s, wire, rd, part, dropped, eof, pending, coordUp, registry,
                   nextId, clientFd, cfd, cpipe, nreq, read, handled, last>>

\* handle_command is at its next call of execute_command, or returns
WorkerExec(c) ==
    /\ wk[c].pc = "handle"
    /\ IF wk[c].k > Len(Calls(c))
       THEN \* handle_command returns; the worker is back in read()
            /\ wk' = [wk EXCEPT ![c].pc = "read", ![c].hc = "returned"]
            /\ wire' = wire
       ELSE LET call == CurCall(c) IN
            IF call.kind = "ub"
            THEN \* a store outside the arrays: the process is killed, or it goes
                 \* on with a damaged heap and whatever the line then does
                 /\ \E crash \in BOOLEAN :
                       wk' = IF crash
                             THEN [wk EXCEPT ![c].pc = "dead", ![c].why = "segv"]
                             ELSE [wk EXCEPT ![c].k = @ + 1, ![c].why = "ub"]
                 /\ wire' = wire
            ELSE IF call.kind # "exec" \/ call.argv[1] = <<>>
            THEN \* a store through NULL, strcmp(NULL, ...)
                 /\ wk' = [wk EXCEPT ![c].pc = "dead", ![c].why = "segv"]
                 /\ wire' = wire
            ELSE IF call.argv[1][1] = W_halt
            THEN /\ wk' = [wk EXCEPT ![c].pc = "halting", ![c].out = @ \o HaltToks]
                 /\ Emit(c, HaltToks)
            ELSE IF call.argv[1][1] = W_help
            THEN /\ wk' = [wk EXCEPT ![c].k = @ + 1, ![c].out = @ \o HelpToks]
                 /\ Emit(c, HelpToks)
            ELSE IF call.argv[1][1] = W_cd
            THEN LET r == CdResult(call.argv[1], wk[c].cwd) IN
                 /\ wk' = [wk EXCEPT ![c].k = @ + 1, ![c].cwd = r.cwd,
                                     ![c].out = @ \o r.toks]
                 /\ Emit(c, r.toks)
            ELSE \* the pipes are created and every stage is forked
                 /\ wk' = [wk EXCEPT ![c].pc = "pipe",
                                     ![c].call = call,
                                     ![c].stages = [r \in 1..Len(call.argv) |-> "forked"],
                                     ![c].io = [r \in 1..Len(call.argv) |-> NoIo],
                                     ![c].status = [r \in 1..Len(call.argv) |-> -1],
                                     ![c].rp = 0, ![c].emitted = 0, ![c].widx = 1]
                 /\ wire' = wire
    /\ UNCHANGED <<cstate, nsent, c2s, rd, part, dropped, eof, pending, coordUp, registry, nextId, clientFd,
                   cfd, nfail, cpipe, nreq, read, handled, last>>

\* "killpg(0, SIGTERM)": every process of the server's group is terminated
HaltKill(c) ==
    /\ wk[c].pc = "halting"
    /\ wk' = [w \in Conn |->
                IF wk[w].pc = "none" THEN wk[w]
                ELSE [wk[w] EXCEPT !.pc = "dead",
                                   !.why = IF Alive(w) THEN "halt" ELSE @,
                                   !.stages = [r \in 1..Len(wk[w].stages) |->
                                                 IF StageLive(wk[w].stages[r])
                                                 THEN "killed" ELSE wk[w].stages[r]]]]
    /\ CoordDies
    /\ UNCHANGED <<cstate, nsent, c2s, wire, rd, part, dropped, eof, registry, nextId, clientFd, nfail,
                   cpipe, nreq, read, handled, last>>

\* A stage of the pipeline the worker is in, or was in when it exited
StageCall(c) == wk[c].call

\* A forked stage has set up its descriptors and execvp has succeeded
StageExec(c, r) ==
    /\ r \in 1..Len(wk[c].stages)
    /\ wk[c].stages[r] = "forked"
    /\ wk' = [wk EXCEPT ![c].stages[r] = "run", ![c].io[r] = Wiring(StageCall(c), r)]
    /\ UNCHANGED <<cstate, nsent, c2s, wire, rd, part, dropped, eof, pending, coordUp, registry,
                   nextId, clientFd, cfd, nfail, cpipe, nreq, read, handled, last>>

\* A perror() whose text does not reach the result pipe: descriptor 2 left
\* as the worker had it
PerrorToTerminal(w) == 0

\* perror() after a failed execvp: the chunks it adds to the result pipe
PerrorChunks(w) == IF w.stderr.to = "result" THEN 1 ELSE 0

\* A forked stage has set up its descriptors and execvp has failed: perror(),
\* exit(1)
StageExecFails(c, r) ==
    /\ r \in 1..Len(wk[c].stages)
    /\ wk[c].stages[r] = "forked"
    /\ LET w == Wiring(StageCall(c), r) IN
       wk' = [wk EXCEPT ![c].stages[r] = "exited", ![c].io[r] = w,
                        ![c].status[r] = 1, ![c].rp = @ + PerrorChunks(w)]
    /\ UNCHANGED <<cstate, nsent, c2s, wire, rd, part, dropped, eof, pending, coordUp, registry,
                   nextId, clientFd, cfd, nfail, cpipe, nreq, read, handled, last>>

\* The stages that run with the result pipe as standard output
ToResult(c) ==
    {r \in 1..Len(wk[c].stages) : wk[c].stages[r] = "run" /\ wk[c].io[r].stdout.to = "result"}

\* A stage writes output to the result pipe
StageEmit(c) ==
    /\ ToResult(c) # {}
    /\ wk[c].emitted < MaxChunks
    /\ wk' = [wk EXCEPT ![c].rp = @ + 1, ![c].emitted = @ + 1]
    /\ UNCHANGED <<cstate, nsent, c2s, wire, rd, part, dropped, eof, pending, coordUp, registry,
                   nextId, clientFd, cfd, nfail, cpipe, nreq, read, handled, last>>

\* A stage process terminates
StageExit(c, r) ==
    /\ r \in 1..Len(wk[c].stages)
    /\ wk[c].stages[r] = "run"
    /\ wk' = [wk EXCEPT ![c].stages[r] = "exited", ![c].status[r] = 0]
    /\ UNCHANGED <<cstate, nsent, c2s, wire, rd, part, dropped, eof, pending, coordUp, registry,
                   nextId, clientFd, cfd, nfail, cpipe, nreq, read, handled, last>>

\* The ends of the pipes of a pipeline: <<pipe, index, end>>
ResultRead == <<"result", 0, "r">>
ResultWrite == <<"result", 0, "w">>

AllEnds(call) ==
    {ResultRead, ResultWrite}
    \union {<<"pipe", j, e>> : j \in 1..(Len(call.argv) - 1), e \in {"r", "w"}}

\* A parent that closes nothing after the fork loop
ParentHoldsAll(call) == AllEnds(call)

\* What the parent holds when it reads the result pipe: it has closed
\* result_pipe[1] and both ends of every pipes[i]
ParentHolds(call) == {ResultRead}

\* What stage r holds when it calls execvp: its descriptors 0 and 1 where they
\* are pipe ends, and result_pipe[1] itself if it is the last stage and has
\* no output redirection; every other end was closed
StageHolds(call, r) ==
    (IF StageStdin(call, r).to = "pipe" THEN {<<"pipe", r - 1, "r">>} ELSE {})
    \union (IF StageStdout(call, r).to = "pipe" THEN {<<"pipe", r, "w">>} ELSE {})
    \union (IF StageStdout(call, r).to = "result" THEN {ResultWrite} ELSE {})
    \union (IF r = Len(call.argv) /\ call.outf[r] = 0 THEN {ResultWrite} ELSE {})

\* The pipe ends a process of the pipeline holds: a stage that has not come
\* to its close() calls yet has them all
HeldByStage(c, r) ==
    IF wk[c].stages[r] = "forked" THEN AllEnds(StageCall(c))
    ELSE IF wk[c].stages[r] = "run" THEN StageHolds(StageCall(c), r)
    ELSE {}

\* Some process still holds the write end of the result pipe
ResultPipeOpen(c) ==
    \/ ResultWrite \in ParentHolds(StageCall(c))
    \/ \E r \in 1..Len(wk[c].stages) : ResultWrite \in HeldByStage(c, r)

\* The read loop: a chunk of the result pipe is forwarded to the socket
WorkerReadResult(c) ==
    /\ wk[c].pc = "pipe"
    /\ wk[c].rp > 0
    /\ wk' = [wk EXCEPT ![c].rp = @ - 1, ![c].out = Append(@, OUT)]
    /\ Emit(c, <<OUT>>)
    /\ UNCHANGED <<cstate, nsent, c2s, rd, part, dropped, eof, pending, coordUp, registry, nextId, clientFd,
                   cfd, nfail, cpipe, nreq, read, handled, last>>

\* The read loop ends: read() returns 0 at end of file
ReadLoopEnds(c) == wk[c].rp = 0 /\ ~ResultPipeOpen(c)

WorkerReadEOF(c) ==
    /\ wk[c].pc = "pipe"
    /\ ReadLoopEnds(c)
    /\ wk' = [wk EXCEPT ![c].pc = "wait", ![c].widx = 1]
    /\ UNCHANGED <<cstate, nsent, c2s, wire, rd, part, dropped, eof, pending, coordUp, registry, nextId,
                   clientFd, cfd, nfail, cpipe, nreq, read, handled, last>>

\* What waitpid(pids[i], NULL, WNOHANG) would do: return at once, whatever the
\* state of the stage
WaitReturnsNoHang(c) == wk[c].stages[wk[c].widx] \in {"run", "exited"}

\* A wait loop that does not wait at all
WaitReturnsAtOnce(c) == TRUE

\* The wait loop: waitpid(pids[i], NULL, 0) returns once stage i has terminated
WaitReturns(c) == wk[c].stages[wk[c].widx] = "exited"

WorkerWait(c) ==
    /\ wk[c].pc = "wait"
    /\ WaitReturns(c)
    /\ wk' = [wk EXCEPT ![c].widx = @ + 1,
                         ![c].pc = IF wk[c].widx = Len(wk[c].stages) THEN "finish" ELSE @]
    /\ UNCHANGED <<cstate, nsent, c2s, wire, rd, part, dropped, eof, pending, coordUp, registry, nextId,
                   clientFd, cfd, nfail, cpipe, nreq, read, handled, last>>

\* The first stage with an output redirection, 0 if none
FirstOutFlag(call) ==
    LET hits == {r \in 1..Len(call.outf) : call.outf[r] # 0} IN
    IF hits = {} THEN 0 ELSE CHOOSE r \in hits : \A m \in hits : r <= m

\* After the waits: the info line, then "[END]" unless not_all_flag
FinishToks(call) ==
    (IF FirstOutFlag(call) # 0
     THEN <<TokB("[INFO] Output saved to file", call.fn[FirstOutFlag(call)])>>
     ELSE <<>>)
    \o (IF call.notAll = 0 THEN <<END, PAD>> ELSE <<>>)

WorkerFinish(c) ==
    /\ wk[c].pc = "finish"
    /\ wk' = [wk EXCEPT ![c].pc = "handle", ![c].k = @ + 1, ![c].stages = <<>>,
                         ![c].io = <<>>,
                         ![c].out = @ \o FinishToks(StageCall(c))]
    /\ Emit(c, FinishToks(StageCall(c)))
    /\ UNCHANGED <<cstate, nsent, c2s, rd, part, dropped, eof, pending, coordUp, registry, nextId, clientFd,
                   cfd, nfail, cpipe, nreq, read, handled, last>>

(***************************************************************************)
(* The system                                                              *)
(***************************************************************************)
\* Two clients and the lines of SysLines; every read() of a client returns
\* whole blocks
Next ==
    \/ \E c \in Conn : ClientConnect(c)
    \/ \E c \in Conn : \E ln \in SysLines : ClientSend(c, ln)
    \/ \E c \in Conn : ClientInputClosed(c)
    \/ \E c \in Conn : \E n \in 1..(MaxCmds * 6) : ClientRecv(c, n, FALSE)
    \/ CoordAccept
    \/ CoordAcceptFail
    \/ CoordForkFail
    \/ CoordControl
    \/ \E c \in Conn : WorkerRead(c)
    \/ \E c \in Conn : WorkerEOF(c)
    \/ \E c \in Conn : WorkerExec(c)
    \/ \E c \in Conn : ExecPipeFail(c)
    \/ \E c \in Conn : \E i \in 1..NumCommands : ExecForkFail(c, i)
    \/ \E c \in Conn : HaltKill(c)
    \/ \E c \in Conn : \E r \in 1..NumCommands : StageExec(c, r)
    \/ \E c \in Conn : \E r \in 1..NumCommands : StageExecFails(c, r)
    \/ \E c \in Conn : StageEmit(c)
    \/ \E c \in Conn : \E r \in 1..NumCommands : StageExit(c, r)
    \/ \E c \in Conn : WorkerReadResult(c)
    \/ \E c \in Conn : WorkerReadEOF(c)
    \/ \E c \in Conn : WorkerWait(c)
    \/ \E c \in Conn : WorkerFinish(c)

Spec == Init /\ [][Next]_vars

\* One client alone, typing any of the lines: the same steps for connection 1,
\* and a read() of the client may end inside a marker
One == {1}

NextLine ==
    \/ \E c \in One : ClientConnect(c)
    \/ \E c \in One : \E ln \in AllLines : ClientSend(c, ln)
    \/ \E c \in One : ClientInputClosed(c)
    \/ \E c \in One : \E n \in 0..(MaxCmds * 6) : \E cut \in BOOLEAN : ClientRecv(c, n, cut)
    \/ CoordAccept
    \/ CoordAcceptFail
    \/ CoordForkFail
    \/ CoordControl
    \/ \E c \in One : WorkerRead(c)
    \/ \E c \in One : WorkerEOF(c)
    \/ \E c \in One : WorkerExec(c)
    \/ \E c \in One : ExecPipeFail(c)
    \/ \E c \in One : \E i \in 1..NumCommands : ExecForkFail(c, i)
    \/ \E c \in One : HaltKill(c)
    \/ \E c \in One : \E r \in 1..NumCommands : StageExec(c, r)
    \/ \E c \in One : \E r \in 1..NumCommands : StageExecFails(c, r)
    \/ \E c \in One : StageEmit(c)
    \/ \E c \in One : \E r \in 1..NumCommands : StageExit(c, r)
    \/ \E c \in One : WorkerReadResult(c)
    \/ \E c \in One : WorkerReadEOF(c)
    \/ \E c \in One : WorkerWait(c)
    \/ \E c \in One : WorkerFinish(c)

SpecLine == Init /\ [][NextLine]_vars

\* One client, its worker and the stages of its pipelines, for lines with one
\* and two stages, with and without redirection; every read() of the client
\* returns whole blocks
PipeLines == {L_p, L_pipe, L_infile, L_outfile}

NextPipe ==
    \/ \E c \in One : ClientConnect(c)
    \/ \E c \in One : \E ln \in PipeLines : ClientSend(c, ln)
    \/ \E c \in One : \E n \in 1..(MaxCmds * 6) : ClientRecv(c, n, FALSE)
    \/ CoordAccept
    \/ \E c \in One : WorkerRead(c)
    \/ \E c \in One : WorkerExec(c)
    \/ \E c \in One : \E r \in 1..NumCommands : StageExec(c, r)
    \/ \E c \in One : \E r \in 1..NumCommands : StageExecFails(c, r)
    \/ \E c \in One : StageEmit(c)
    \/ \E c \in One : \E r \in 1..NumCommands : StageExit(c, r)
    \/ \E c \in One : WorkerReadResult(c)
    \/ \E c \in One : WorkerReadEOF(c)
    \/ \E c \in One : WorkerWait(c)
    \/ \E c \in One : WorkerFinish(c)

\* A worker is not held up for ever: a read() of the result pipe that can
\* return does, and so does a waitpid() and the return that follows
SpecPipeFair ==
    /\ Init /\ [][NextPipe]_vars
    /\ \A c \in One : WF_vars(WorkerReadResult(c) \/ WorkerReadEOF(c)
                                \/ WorkerWait(c) \/ WorkerFinish(c))

\* One client and its worker, the lines those that try the parser; the
\* listener accepts and does nothing else
NextParse ==
    \/ \E c \in One : ClientConnect(c)
    \/ \E c \in One : \E ln \in ParseLines : ClientSend(c, ln)
    \/ \E c \in One : \E n \in 0..(MaxCmds * 6) : \E cut \in BOOLEAN : ClientRecv(c, n, cut)
    \/ CoordAccept
    \/ \E c \in One : WorkerRead(c)
    \/ \E c \in One : WorkerExec(c)
    \/ \E c \in One : \E r \in 1..NumCommands : StageExec(c, r)
    \/ \E c \in One : \E r \in 1..NumCommands : StageExecFails(c, r)
    \/ \E c \in One : StageEmit(c)
    \/ \E c \in One : \E r \in 1..NumCommands : StageExit(c, r)
    \/ \E c \in One : WorkerReadResult(c)
    \/ \E c \in One : WorkerReadEOF(c)
    \/ \E c \in One : WorkerWait(c)
    \/ \E c \in One : WorkerFinish(c)

SpecParse == Init /\ [][NextParse]_vars

\* Two clients whose lines are cd commands: to a directory that exists, to
\* one that does not, and without an argument
CdLines == {L_cdd, L_cdx, L_cd}

NextCd ==
    \/ \E c \in Conn : ClientConnect(c)
    \/ \E c \in Conn : \E ln \in CdLines : ClientSend(c, ln)
    \/ \E c \in Conn : \E n \in 1..(MaxCmds * 6) : ClientRecv(c, n, FALSE)
    \/ CoordAccept
    \/ \E c \in Conn : WorkerRead(c)
    \/ \E c \in Conn : WorkerExec(c)

SpecCd == Init /\ [][NextCd]_vars

\* Two clients that change directory or quit, an accept() that can fail, and
\* the client's read() at end of file
EofLines == {L_quit, L_cdd}

NextEof ==
    \/ \E c \in Conn : ClientConnect(c)
    \/ \E c \in Conn : \E ln \in EofLines : ClientSend(c, ln)
    \/ \E c \in Conn : \E n \in 1..(MaxCmds * 6) : ClientRecv(c, n, FALSE)
    \/ \E c \in Conn : ClientReadEOF(c)
    \/ CoordAccept
    \/ CoordAcceptFail
    \/ CoordControl
    \/ \E c \in Conn : WorkerRead(c)
    \/ \E c \in Conn : WorkerExec(c)

\* select() returns whenever the socket is readable or at end of file, and
\* the client then calls read(): a read that can return does
SpecEofFair ==
    /\ Init /\ [][NextEof]_vars
    /\ \A c \in Conn : WF_vars(ClientReadEOF(c)
                                \/ \E n \in 1..(MaxCmds * 6) : ClientRecv(c, n, FALSE))

\* The registry alone: connections are accepted one after the other, then any
\* registered worker asks for the listing
MaxRegistry == 40

\* accept(), fork() and add_connection for the next client, as long as no
\* listing has been asked for
StatAccept ==
    /\ Len(registry) < MaxRegistry
    /\ last.kind = "none"
    /\ registry' = AddConnection(registry, nextId, FirstClientFd + nextId - 1,
                                 PidBase + nextId)
    /\ nextId' = nextId + 1
    /\ UNCHANGED <<cstate, nsent, c2s, wire, rd, part, dropped, eof, pending, coordUp, clientFd, cfd, nfail,
                   wk, cpipe, nreq, read, handled, last>>

\* The worker of the r-th node forwards "stat <pid>\n" and the listener dispatches it
StatRequest(r) ==
    /\ r \in 1..Len(registry)
    /\ \E d \in {Dispatch(StatMsg(registry[r].pid), registry, clientFd)} :
       last' = [NoDispatch EXCEPT
                  !.kind = d.kind, !.from = registry[r].pid - PidBase,
                  !.senderPid = d.senderPid, !.before = registry, !.after = registry,
                  !.next = nextId,
                  !.wrote = [k \in 1..Len(d.writes) |->
                               <<d.writes[k].fd, 0, d.writes[k].tok.t, d.writes[k].tok.b>>]]
    /\ UNCHANGED <<cstate, nsent, c2s, wire, rd, part, dropped, eof, pending, coordUp, registry, nextId,
                   clientFd, cfd, nfail, wk, cpipe, nreq, read, handled>>

NextStat ==
    \/ StatAccept
    \/ \E r \in 1..MaxRegistry : StatRequest(r)

SpecStat == Init /\ [][NextStat]_vars

(***************************************************************************)
(* Properties                                                              *)
(***************************************************************************)

\* C1 -- Every line a client sends is answered by at least one terminal marker:
\* once handle_command has returned and the worker is back in read(), the
\* bytes it wrote for the line hold a terminal marker.
C1_LineAnswered ==
    \A c \in Conn : wk[c].hc = "returned" => Markers(wk[c].out) # <<>>

\* C2 -- At most one terminal marker per line handled by handle_command; in
\* particular the bytes written for one line hold "[END]" at most once.
C2_OneEndPerLine ==
    \A c \in Conn :
        Cardinality({k \in 1..Len(wk[c].out) : wk[c].out[k].t = "[END]"}) <= 1

\* C3 -- The "[END]" of a pipeline is written only after the result pipe was
\* read to end of file, with nothing left to forward, and after every stage was
\* waited for and has terminated; no output of the pipeline follows its "[END]".
C3_EndAfterEofAndWait ==
    /\ [][\A c \in Conn :
            (/\ Len(wire'[c]) > Len(wire[c])
             /\ wire'[c][Len(wire'[c])].t = "pad")
            => /\ wk[c].pc = "finish"
               /\ wk[c].rp = 0
               /\ ~ResultPipeOpen(c)
               /\ wk[c].widx = Len(wk[c].stages) + 1
               /\ \A r \in 1..Len(wk[c].stages) : wk[c].stages[r] = "exited"]_vars
    /\ [](\A c \in Conn : \A i, j \in 1..Len(wk[c].out) :
            (i < j /\ wk[c].out[i].t = "[END]") => wk[c].out[j].t # "out")

\* C3: a two-stage pipeline whose output and "[END]" have been written
C3_Witness ==
    \E c \in Conn : /\ wk[c].hc = "returned"
                    /\ Len(Calls(c)) = 1 /\ Len(Calls(c)[1].argv) = 2
                    /\ HasTok(wk[c].out, "out")
                    /\ HasTok(wk[c].out, "pad")

\* C4 -- Every request the listener has read from the control pipe has been
\* dispatched.
C4_EveryRequestDispatched == \A m \in read : m.n \in handled

\* C5 -- The requester the listener decodes is the worker that wrote the
\* request, also when the worker's buffer held earlier lines (here for a
\* buffer that was all zero when the worker started).
C5_RequesterDecoded ==
    (last.kind # "none" /\ wk[last.from].b0 = <<>>) => last.senderPid = PidOf(last.from)

\* C6 -- When the listener writes to a socket, the worker of that connection
\* is blocked in read() on it.
C6_WorkerBlockedInRead == last.busy = {}

\* C7 -- A worker that exited because its client disconnected has no entry in
\* the registry.
C7_RegistryFollowsWorkers ==
    coordUp => \A k \in 1..Len(registry) : wk[registry[k].pid - PidBase].why # "exit"

\* C8 -- After halt has terminated the server, every client whose connection
\* had been accepted has "[HALT]" on its socket.
C8_HaltReachesEveryClient ==
    (\E w \in Conn : wk[w].why = "halt")
    => \A c \in Conn : wk[c].pc # "none" => HasTok(wire[c], "[HALT]")

\* The connection of the node with this id in a list, 0 if there is none
ConnOfId(list, id) ==
    LET hits == {k \in 1..Len(list) : list[k].id = id} IN
    IF hits = {} THEN 0 ELSE list[CHOOSE k \in hits : TRUE].pid - PidBase

\* The blocks a dispatch wrote to the socket of connection c
TypesTo(wrote, c) ==
    LET ks == SelectSeq([k \in 1..Len(wrote) |-> k], LAMBDA k : wrote[k][2] = c)
    IN  [i \in 1..Len(ks) |-> wrote[ks[i]][3]]

\* C9 -- abort <id> by a worker other than the target's, both clients
\* connected and both sessions registered: the target's socket gets "[ABORT]",
\* "[END]", the requester's the info line and "[END]", the target's worker is
\* killed and only its node leaves the list, and the target's client, once it
\* has read all that was written to it, has terminated.
C9_AbortOther ==
    LET t == ConnOfId(last.before, last.argId) IN
    (/\ last.kind = "abort"
     /\ t # 0 /\ t # last.from
     /\ \E k \in 1..Len(last.before) : last.before[k].pid = PidOf(last.from)
     /\ last.gone = {})
    => /\ TypesTo(last.wrote, t) = <<"[ABORT]", "[END]">>
       /\ TypesTo(last.wrote, last.from) = <<"[INFO] Aborted connection for ID", "[END]">>
       /\ last.killed = t
       /\ last.after = SelectSeq(last.before, LAMBDA n : n.id # last.argId)
       /\ (rd[t] = Len(wire[t]) => cstate[t] = "Exited")

\* C10 -- stat while no accepted connection has been removed: two writes to the
\* requester's descriptor, a listing with exactly one entry per node of the
\* list and "[END]"; the list is left as it was.
C10_StatListsEveryConnection ==
    (last.kind = "stat" /\ Len(last.before) = last.next - 1)
    => /\ Len(last.wrote) = 2
       /\ \A k \in 1..2 : last.wrote[k][1] = FindFd(last.before, PidOf(last.from), -1)
       /\ last.wrote[1][3] = "stat" /\ last.wrote[2][3] = "[END]"
       /\ Len(last.wrote[1][4]) = Len(last.before)
       /\ \A k \in 1..Len(last.before) :
            Cardinality({i \in 1..Len(last.wrote[1][4]) :
                           last.wrote[1][4][i] = <<last.before[k].id, last.before[k].pid,
                                                   last.before[k].fd>>}) = 1
       /\ last.after = last.before

\* C11 -- abort <id> where the id is that of the requester's own session: the
\* listener makes exactly two writes, "[ABORT]" then "[END]", both to that
\* session's socket, kills the worker and unlinks exactly that node.
C11_AbortSelf ==
    (/\ last.kind = "abort"
     /\ last.from # 0
     /\ ConnOfId(last.before, last.argId) = last.from)
    => /\ Len(last.wrote) = 2
       /\ \A k \in 1..2 : last.wrote[k][2] = last.from
       /\ last.wrote[1][3] = "[ABORT]" /\ last.wrote[2][3] = "[END]"
       /\ last.killed = last.from
       /\ last.after = SelectSeq(last.before, LAMBDA n : n.id # last.argId)
       /\ Len(last.after) = Len(last.before) - 1

\* C11: a session has aborted itself
C11_Witness ==
    /\ last.kind = "abort"
    /\ last.from # 0
    /\ ConnOfId(last.before, last.argId) = last.from
    /\ Len(last.wrote) = 2
    /\ wk[last.from].why = "killed"

\* C12 -- quit from a registered session, its pid decoded as sent: the
\* listener writes "[QUIT]" then "[END]" to the requester's socket, kills its
\* worker and unlinks exactly its node.
C12_QuitRemovesRequester ==
    (/\ last.kind = "quit"
     /\ last.senderPid = PidOf(last.from)
     /\ \E k \in 1..Len(last.before) : last.before[k].pid = PidOf(last.from))
    => /\ Len(last.wrote) = 2
       /\ \A k \in 1..2 : last.wrote[k][2] = last.from
       /\ last.wrote[1][3] = "[QUIT]" /\ last.wrote[2][3] = "[END]"
       /\ last.killed = last.from
       /\ last.after = SelectSeq(last.before, LAMBDA n : n.pid # PidOf(last.from))

\* C13 -- Ids start at 1 and grow in the order of acceptance: the list, newest
\* node first, has strictly decreasing ids, all of them at least 1 and below
\* next_connection_id; next_connection_id never decreases, every node added
\* carries the value it had and advances it by one, so no id is given twice;
\* a failed accept() or fork() leaves the list and next_connection_id alone.
C13_IdsMonotonic ==
    /\ [](/\ nextId >= 1
          /\ \A k \in 1..Len(registry) : registry[k].id >= 1 /\ registry[k].id < nextId
          /\ \A k \in 1..(Len(registry) - 1) : registry[k].id > registry[k + 1].id)
    /\ [][/\ nextId' >= nextId
          /\ (Len(registry') > Len(registry))
             => /\ registry' = <<Head(registry')>> \o registry
                /\ Head(registry').id = nextId
                /\ nextId' = nextId + 1
          /\ (nextId' # nextId) => Len(registry') = Len(registry) + 1
          /\ (nfail' # nfail) => (nextId' = nextId /\ registry' = registry)]_vars

\* C13: an accept() or fork() has failed, a session has been removed, and the
\* newest node carries the last id given, which is above 1
C13_Witness ==
    /\ nfail > 0
    /\ registry # <<>>
    /\ Len(registry) < nextId - 1
    /\ Head(registry).id = nextId - 1
    /\ Head(registry).id > 1

\* C14 -- The list changes only in steps of the listener: an accept adds one
\* node at the head, the dispatch of a request unlinks at most one node; no
\* step of a client, a worker or a stage changes it.
C14_RegistryOnlyByListener ==
    [][(registry' # registry)
       => \/ CoordAccept /\ Len(registry') = Len(registry) + 1
          \/ /\ CoordControl
             /\ last'.kind \in {"abort", "quit"}
             /\ Len(registry') = Len(registry) - 1]_vars

\* C14: a worker has changed directory, run commands, forwarded a request and
\* exited, and its node is in the list
C14_Witness ==
    /\ Len(registry) = 1
    /\ \E c \in Conn : /\ wk[c].why = "exit"
                       /\ wk[c].cwd # StartDir
                       /\ registry[1].pid = PidOf(c)
    /\ nreq > 0

\* C15 -- One pipeline at a time per connection: stage processes of a worker
\* exist only while it is inside execute_command for their pipeline; it leaves
\* execute_command only after the wait loop has passed every stage and all of
\* them have terminated, and it forks the stages of a pipeline only when no
\* stage of an earlier one is left.
C15_OnePipelineAtATime ==
    /\ [](\A c \in Conn :
            (\E r \in 1..Len(wk[c].stages) : StageLive(wk[c].stages[r]))
            => wk[c].pc \in {"pipe", "wait", "finish", "dead"})
    /\ [][\A c \in Conn :
            /\ (wk[c].pc \in {"pipe", "wait", "finish"} /\ wk'[c].pc \in {"handle", "read"})
               => /\ wk[c].widx = Len(wk[c].stages) + 1
                  /\ \A r \in 1..Len(wk[c].stages) : wk[c].stages[r] = "exited"
            /\ (wk[c].pc # "pipe" /\ wk'[c].pc = "pipe")
               => /\ wk[c].pc = "handle"
                  /\ \A r \in 1..Len(wk[c].stages) : ~StageLive(wk[c].stages[r])]_vars

\* C15: the second of two pipelines of one line is running
C15_Witness ==
    \E c \in Conn : /\ Len(Calls(c)) = 2
                    /\ wk[c].k = 2
                    /\ wk[c].pc = "pipe"
                    /\ \E r \in 1..Len(wk[c].stages) : wk[c].stages[r] = "run"

\* C16 -- The listener comes back to select() from every event it handles:
\* it stops running only when halt terminates the whole server.
C16_ListenerReturnsToSelect ==
    coordUp \/ \E w \in Conn : wk[w].why = "halt"

\* The reserved names of the shell
Reserved == {W_cd, W_halt, W_help, W_quit, W_stat, <<"a", "b", "o", "r", "t">>}

\* C17 -- No stage process calls execvp with a reserved name as its program.
C17_BuiltinsNeverExeced ==
    \A c \in Conn :
        wk[c].k \in 1..Len(Calls(c))
        => \A r \in 1..Len(wk[c].stages) :
             (wk[c].stages[r] = "run" /\ CurCall(c).argv[r] # <<>>)
             => CurCall(c).argv[r][1] \notin Reserved

\* C18 -- execute_command is never called with a stage whose argument vector
\* is empty.
C18_NoEmptyStage ==
    \A c \in Conn :
        (wk[c].pc = "handle" /\ wk[c].k \in 1..Len(Calls(c)) /\ CurCall(c).kind = "exec")
        => \A r \in 1..Len(CurCall(c).argv) : CurCall(c).argv[r] # <<>>

\* C19 -- handle_command never stores outside the arrays it allocated,
\* whatever the number of stages, of words in a stage and their lengths.
C19_StoresInBounds ==
    \A c \in Conn :
        wk[c].pc = "handle" => \A k \in 1..Len(Calls(c)) : Calls(c)[k].kind # "ub"

\* C20 -- A line of two commands separated by ';', the first with its output
\* redirected to a file: once handle_command has returned, the bytes written
\* are the info line of the first command and "[END]", then the output of
\* the second command and "[END]".
C20_TwoCommandsTwoFrames ==
    \A c \in Conn :
        (/\ wk[c].hc = "returned"
         /\ Len(Calls(c)) = 2
         /\ Calls(c)[1].kind = "exec" /\ Calls(c)[1].outf[1] # 0)
        => LET ts == SelectSeq(wk[c].out, LAMBDA tok : tok.t # "pad") IN
           /\ Len(ts) >= 3
           /\ ts[1].t = "[INFO] Output saved to file"
           /\ ts[2].t = "[END]"
           /\ \A k \in 3..(Len(ts) - 1) : ts[k].t = "out"
           /\ ts[Len(ts)].t = "[END]"

\* C21 -- One command that is not a built-in, alone on its line and without
\* redirection: once handle_command has returned, the bytes written to the
\* socket are the output read from the result pipe followed by the five bytes
\* of "[END]", and no byte after them.
C21_OutputThenEndOnly ==
    \A c \in Conn :
        (/\ wk[c].hc = "returned"
         /\ Len(Calls(c)) = 1
         /\ Calls(c)[1].kind = "exec"
         /\ Len(Calls(c)[1].argv) = 1
         /\ Calls(c)[1].argv[1] # <<>>
         /\ Calls(c)[1].argv[1][1] \notin {W_halt, W_help, W_cd}
         /\ Calls(c)[1].inf[1] = 0 /\ Calls(c)[1].outf[1] = 0)
        => /\ wk[c].out # <<>>
           /\ wk[c].out[Len(wk[c].out)].t = "[END]"
           /\ \A k \in 1..(Len(wk[c].out) - 1) : wk[c].out[k].t = "out"

\* C22 -- "cd" to a path chdir() cannot enter writes the line "[ERROR] cd:
\* directory doesn't exist" and "[END]" to the caller, "cd" without a path
\* writes "[ERROR] cd: missing argument" and "[END]"; in both cases no stage
\* is forked, the worker's directory stays what it was and the worker goes on
\* with the line.
C22_CdErrors ==
    [][\A c \in Conn :
         (/\ wk[c].pc = "handle"
          /\ wk[c].k <= Len(Calls(c))
          /\ wk'[c].k = wk[c].k + 1
          /\ CurCall(c).kind = "exec"
          /\ CurCall(c).argv[1] # <<>>
          /\ CurCall(c).argv[1][1] = W_cd
          /\ (Len(CurCall(c).argv[1]) < 2 \/ CurCall(c).argv[1][2] \notin Dirs))
         => /\ wire'[c] = wire[c] \o
                  <<Tok(IF Len(CurCall(c).argv[1]) < 2
                        THEN "[ERROR] cd: missing argument"
                        ELSE "[ERROR] cd: directory doesn't exist"), END>>
            /\ wk'[c].cwd = wk[c].cwd
            /\ wk[c].stages = <<>> /\ wk'[c].stages = <<>>
            /\ wk'[c].pc = "handle"]_vars

\* C22: one worker has answered a "cd" without a path and a "cd" to a path
\* that cannot be entered, and is back in read() in the directory it started in
C22_Witness ==
    \E c \in Conn : /\ HasTok(wire[c], "[ERROR] cd: missing argument")
                    /\ HasTok(wire[c], "[ERROR] cd: directory doesn't exist")
                    /\ wk[c].cwd = StartDir
                    /\ wk[c].pc = "read"

\* C23 -- A line that is one pipeline: once handle_command has returned, the
\* line "[INFO] Output saved to file" has been written if and only if no
\* output was read from the result pipe and the last stage has an output
\* redirection, and then it names the file of the last stage.
C23_InfoIffEmptyAndLastRedirected ==
    \A c \in Conn :
        (/\ wk[c].hc = "returned"
         /\ Len(Calls(c)) = 1
         /\ Calls(c)[1].kind = "exec"
         /\ \A r \in 1..Len(Calls(c)[1].argv) : Calls(c)[1].argv[r] # <<>>
         /\ Calls(c)[1].argv[1][1] \notin {W_halt, W_help, W_cd})
        => LET call == Calls(c)[1]
               last_stage == Len(call.argv)
               infos == SelectSeq(wk[c].out,
                                  LAMBDA tok : tok.t = "[INFO] Output saved to file")
           IN  /\ (infos # <<>>) <=> (~HasTok(wk[c].out, "out") /\ call.outf[last_stage] # 0)
               /\ \A k \in 1..Len(infos) : infos[k].b = call.fn[last_stage]

C25_PipeForkFailureNotFatal ==
    [][\A c \in Conn :
         (AtPipeline(c) /\ nfail' = nfail + 1 /\ wk'[c] # wk[c])
         => /\ wk'[c].pc # "dead"
            /\ Len(wire'[c]) > Len(wire[c])
            /\ IsMarker(wire'[c][Len(wire'[c])])]_vars

\* C26 -- The client's two states.  A line is written to the socket only by
\* a client that is Idle, one line at a time, never a bare newline, and the
\* client is AwaitingResponse afterwards; a client that is AwaitingResponse
\* reads no line from the terminal and sends nothing, so that it is Idle again
\* before its next line goes out; a bare newline read in Idle sends nothing
\* and leaves the client Idle.
C26_ClientStateMachine ==
    /\ [][\A c \in Conn :
            (c2s'[c] # c2s[c] /\ Len(c2s'[c]) >= Len(c2s[c]))
            => /\ cstate[c] = "Idle" /\ cstate'[c] = "Awaiting"
               /\ Len(c2s'[c]) = Len(c2s[c]) + 1
               /\ SubSeq(c2s'[c], 1, Len(c2s[c])) = c2s[c]
               /\ Len(c2s'[c][Len(c2s'[c])]) > 1]_vars
    /\ [](\A c \in Conn :
            cstate[c] = "Awaiting"
            => /\ ~ENABLED (\E ln \in AllLines : ClientSend(c, ln))
               /\ ~ENABLED ClientInputClosed(c))
    /\ [][\A c \in Conn : ClientSend(c, L_empty) => UNCHANGED <<c2s, cstate, wire>>]_vars

\* C26: a client has read a bare newline and is Idle with nothing sent, and
\* then has sent a line and awaits the response
C26_Witness ==
    \E c \in Conn : /\ nsent = 2
                    /\ cstate[c] = "Awaiting"
                    /\ Len(c2s[c]) = 1
                    /\ wire[c] = <<>> /\ wk[c].pc = "none"

\* C27 -- A client that has received the bytes of "[HALT]", "[QUIT]" or
\* "[ABORT]" has terminated, however the bytes were divided among its reads
\* and whatever came before the marker in the same read.
C27_MarkerTerminatesClient ==
    \A c \in Conn :
        (\E k \in 1..rd[c] : wire[c][k].t \in {"[HALT]", "[QUIT]", "[ABORT]"})
        => cstate[c] = "Exited"

\* C28 -- A client in AwaitingResponse that has received the whole "[END]" of
\* the response is Idle again, however the bytes were divided among its reads:
\* when the worker has answered the last line with "[END]", is back in read()
\* with no line left, and the client has read everything written to it, the
\* client is not in AwaitingResponse.
C28_EndReturnsClientToIdle ==
    \A c \in Conn :
        (/\ wk[c].pc = "read" /\ wk[c].hc = "returned"
         /\ HasTok(wk[c].out, "[END]")
         /\ c2s[c] = <<>>
         /\ rd[c] = Len(wire[c]) /\ part[c] = 0)
        => cstate[c] # "Awaiting"

\* C29 -- Output that the client reads from the socket while it is Idle, or
\* that follows the "[END]" which made it Idle, is printed: no output the
\* client has read was dropped for either reason.
C29_LateOutputDisplayed ==
    \A c \in Conn : dropped[c] \cap {"idle", "end"} = {}

\* C30 -- The descriptors of stage r of a pipeline of N stages, once it has
\* set them up.  Standard output: the file of its output redirection
\* (truncated for '>', appended to for '>>') if it has one, else the pipe to
\* stage r + 1 if r < N, else the result pipe.  Standard input: the file of
\* its input redirection if it has one, else the pipe from stage r - 1 if
\* r > 1, else what the worker has.  Standard error: where standard output
\* goes.
C30_StageWiring ==
    \A c \in Conn : \A r \in 1..Len(wk[c].stages) :
        wk[c].stages[r] # "forked" /\ wk[c].io[r] # NoIo
        => LET call == StageCall(c)
               N == Len(call.argv)
               w == wk[c].io[r]
           IN  /\ IF call.outf[r] # 0
                  THEN /\ w.stdout.to = (IF call.outf[r] = 1 THEN "file" ELSE "append")
                       /\ w.stdout.name = call.fn[r]
                  ELSE IF r < N THEN w.stdout.to = "pipe" /\ w.stdout.n = r
                  ELSE w.stdout.to = "result"
               /\ IF call.inf[r] # 0
                  THEN w.stdin.to = "file" /\ w.stdin.name = call.fn[r]
                  ELSE IF r > 1 THEN w.stdin.to = "pipe" /\ w.stdin.n = r - 1
                  ELSE w.stdin.to = "inherited"
               /\ w.stderr = w.stdout

\* C30: in a pipeline of two stages the first writes to its file and not to
\* the pipe, the second reads its file and not the pipe and writes to the
\* result pipe
C30_Witness ==
    \E c \in Conn : /\ Len(wk[c].stages) = 2
                    /\ wk[c].stages[1] = "run" /\ wk[c].stages[2] = "run"
                    /\ wk[c].io[1].stdout.to = "file"
                    /\ wk[c].io[2].stdin.to = "file"
                    /\ wk[c].io[2].stdout.to = "result"

\* C31 -- While the worker reads the result pipe it holds no write end of any
\* pipe of the pipeline, and a stage that has passed its close() calls holds
\* only the ends that are its standard input and output, the write end of the
\* result pipe only if it is the last stage.  Hence, once every stage has
\* terminated, the worker leaves execute_command: the read comes to end of
\* file, the waits return, the call ends.
C31_ExecutorTerminates ==
    /\ [](\A c \in Conn :
            wk[c].pc = "pipe"
            => /\ \A e \in ParentHolds(StageCall(c)) : e[3] # "w"
               /\ \A r \in 1..Len(wk[c].stages) :
                    wk[c].stages[r] = "run"
                    => /\ HeldByStage(c, r) \subseteq
                             {<<"pipe", r - 1, "r">>, <<"pipe", r, "w">>, ResultWrite}
                       /\ (<<"pipe", r - 1, "r">> \in HeldByStage(c, r)
                           => wk[c].io[r].stdin.to = "pipe")
                       /\ (<<"pipe", r, "w">> \in HeldByStage(c, r)
                           => wk[c].io[r].stdout.to = "pipe")
                       /\ (ResultWrite \in HeldByStage(c, r) => r = Len(wk[c].stages)))
    /\ \A c \in Conn :
         (/\ wk[c].pc \in {"pipe", "wait", "finish"}
          /\ \A r \in 1..Len(wk[c].stages) : ~StageLive(wk[c].stages[r]))
         ~> (wk[c].pc \notin {"pipe", "wait", "finish"})

\* C31: both stages of a pipeline have terminated, the read loop has ended
\* and both waits have returned
C31_Witness ==
    \E c \in Conn : /\ wk[c].pc = "finish"
                    /\ Len(wk[c].stages) = 2
                    /\ \A r \in 1..2 : wk[c].stages[r] = "exited"
                    /\ ~ResultPipeOpen(c)

\* C32 -- After the listener has killed the worker of a session it removes,
\* no stage process that worker had forked is still running.
C32_NoStageOutlivesSession ==
    \A c \in Conn :
        wk[c].why = "killed" => \A r \in 1..Len(wk[c].stages) : ~StageLive(wk[c].stages[r])

\* C33 -- The marker comes before the teardown.  A worker about to signal the
\* process group for halt has written "[HALT]" to its caller; a dispatch of
\* the listener that killed a worker and closed its socket had written
\* "[ABORT]" or "[QUIT]" to that socket first; in an abort of another session
\* the requester's info line was written before the target's "[ABORT]".
C33_MarkerBeforeTeardown ==
    /\ \A c \in Conn : wk[c].pc = "halting" => HasTok(wk[c].out, "[HALT]")
    /\ last.killed # 0
       => \E k \in 1..Len(last.wrote) : /\ last.wrote[k][2] = last.killed
                                        /\ last.wrote[k][3] \in {"[ABORT]", "[QUIT]"}
    /\ \A i, j \in 1..Len(last.wrote) :
         (/\ last.wrote[i][3] = "[INFO] Aborted connection for ID"
          /\ last.wrote[j][3] = "[ABORT]")
         => i < j

\* The text of a line up to its newline, cut at every ';'
RECURSIVE Segments(_, _, _)
Segments(cmd, cur, acc) ==
    IF cmd = <<>> \/ Head(cmd) = NL THEN Append(acc, cur)
    ELSE IF Head(cmd) = ";" THEN Segments(Tail(cmd), <<>>, Append(acc, cur))
    ELSE Segments(Tail(cmd), Append(cur, Head(cmd)), acc)

\* C34 -- Every segment of a line that would be parsed into a pipeline when
\* alone on a line is parsed into the same pipeline where it stands: the same
\* stages, arguments, redirection flags and file names, whatever the segments
\* before it were.
C34_SegmentsParsedAlone ==
    \A c \in Conn :
        wk[c].pc = "handle"
        => LET segs == Segments(wk[c].buf, <<>>, <<>>) IN
           \A k \in 1..Len(segs) :
               LET alone == HandleCommand(Append(segs[k], NL)) IN
               (alone # <<>> /\ alone[1].kind = "exec")
               => /\ k <= Len(Calls(c))
                  /\ Calls(c)[k].kind = "exec"
                  /\ Calls(c)[k].argv = alone[1].argv
                  /\ Calls(c)[k].inf = alone[1].inf
                  /\ Calls(c)[k].outf = alone[1].outf
                  /\ Calls(c)[k].fn = alone[1].fn

\* C35 -- In every pipeline handle_command hands to execute_command each
\* stage has at most one redirection: its input flag and its output flag are
\* never both set, and it has a file name exactly when one of them is set.
C35_OneRedirectionPerStage ==
    \A c \in Conn :
        wk[c].pc = "handle"
        => \A k \in 1..Len(Calls(c)) :
               Calls(c)[k].kind = "exec"
               => \A r \in 1..Len(Calls(c)[k].argv) :
                      /\ ~(Calls(c)[k].inf[r] # 0 /\ Calls(c)[k].outf[r] # 0)
                      /\ (Calls(c)[k].fn[r] # Null)
                         <=> (Calls(c)[k].inf[r] # 0 \/ Calls(c)[k].outf[r] # 0)

\* A stage runs whose text held '<' and then '>': the second character is
\* part of the one file name
C35_Witness ==
    \E c \in Conn : /\ wk[c].call.kind = "exec"
                    /\ Len(wk[c].stages) = 1 /\ wk[c].stages[1] = "run"
                    /\ wk[c].call.inf[1] = 1 /\ wk[c].call.outf[1] = 0
                    /\ wk[c].call.fn[1] = <<"a", ">", "b">>
                    /\ wk[c].io[1].stdin.to = "file"

\* C36 -- The entries of the registry have pairwise distinct ids, pairwise
\* distinct socket descriptors and pairwise distinct worker pids, and find_fd
\* called with the pid or with the id of an entry returns that entry's socket.
C36_RegistryEntriesDistinct ==
    /\ \A i, j \in 1..Len(registry) :
           i # j => /\ registry[i].id # registry[j].id
                    /\ registry[i].fd # registry[j].fd
                    /\ registry[i].pid # registry[j].pid
    /\ \A k \in 1..Len(registry) :
           /\ FindFd(registry, registry[k].pid, -1) = registry[k].fd
           /\ FindFd(registry, -1, registry[k].id) = registry[k].fd

\* Two sessions are registered, the older one looked up behind the newer one
C36_Witness ==
    /\ Len(registry) = 2
    /\ FindFd(registry, registry[2].pid, -1) = registry[2].fd
    /\ FindFd(registry, -1, registry[2].id) = registry[2].fd

\* C37 -- A dispatched abort whose id is the id of no registry entry, sent
\* by a client that is still connected, leaves the registry unchanged, kills
\* no worker and writes to the requester's socket only: the information line
\* and then [END], once.
C37_AbortUnknownId ==
    (/\ last.kind = "abort"
     /\ last.from # 0
     /\ last.from \notin last.gone
     /\ ConnOfId(last.before, last.argId) = 0)
    => /\ last.after = last.before
       /\ last.killed = 0
       /\ Len(last.wrote) = 2
       /\ \A k \in 1..2 : last.wrote[k][2] = last.from
       /\ last.wrote[1][3] = "[INFO] Aborted connection for ID"
       /\ last.wrote[2][3] = "[END]"

\* C38 -- A worker's directory changes only by its own successful cd, to the
\* directory named, and stays so for its later commands; the same step
\* changes the directory of no other worker, and a worker forked later starts
\* in the listener's directory, which no cd changes.
C38_CdIsPerConnection ==
    [][\A c \in Conn :
         /\ (wk[c].pc = "none" /\ wk'[c].pc # "none") => wk'[c].cwd = StartDir
         /\ (wk'[c].cwd # wk[c].cwd)
            => /\ wk[c].pc = "handle"
               /\ wk[c].k <= Len(Calls(c))
               /\ CurCall(c).kind = "exec"
               /\ CurCall(c).argv[1] # <<>>
               /\ CurCall(c).argv[1][1] = W_cd
               /\ Len(CurCall(c).argv[1]) >= 2
               /\ CurCall(c).argv[1][2] \in Dirs
               /\ wk'[c].cwd = CurCall(c).argv[1][2]
               /\ \A d \in Conn \ {c} : wk'[d].cwd = wk[d].cwd
         /\ (/\ wk[c].pc = "handle"
             /\ wk[c].k <= Len(Calls(c))
             /\ wk'[c].k = wk[c].k + 1
             /\ CurCall(c).kind = "exec"
             /\ CurCall(c).argv[1] # <<>>
             /\ CurCall(c).argv[1][1] = W_cd
             /\ Len(CurCall(c).argv[1]) >= 2
             /\ CurCall(c).argv[1][2] \in Dirs)
            => wk'[c].cwd = CurCall(c).argv[1][2]]_vars

\* One connection has changed directory and has had a later command handled;
\* the other was accepted after the change and is in the starting directory
C38_Witness ==
    \E c, d \in Conn :
        /\ wk[c].cwd \in Dirs /\ wk[c].pc = "read"
        /\ Take(wk[c].buf, Len(L_cdx)) = L_cdx
        /\ HasTok(wk[c].out, "[ERROR] cd: directory doesn't exist")
        /\ wk[d].pc = "read" /\ wk[d].cwd = StartDir
        /\ \E i, j \in 1..Len(registry) :
               /\ registry[i].pid = PidOf(c) /\ registry[j].pid = PidOf(d)
               /\ registry[i].id < registry[j].id

\* C39 -- A client whose read() has returned 0 while it waits for a response
\* eventually terminates or is back at the prompt.
C39_EofEndsWaiting ==
    \A c \in Conn :
        (c \in eof /\ cstate[c] = "Awaiting") ~> (cstate[c] \in {"Idle", "Exited"})

=============================================================================
